---- MODULE Spec2Model ----
(***************************************************************************)
(* Model of src/cloud-functions/main.py: the Flask handlers translate()    *)
(* and validate() and the lazily initialised provider client               *)
(* get_translator().                                                       *)
(*                                                                         *)
(* Two requests are served concurrently by the process (one thread each).  *)
(* The steps of a handler that touch state shared with the other thread    *)
(* or with the file system (the global _translator, the temporary          *)
(* directory, the provider) are separate actions; purely local statements  *)
(* between two such steps are folded into the step that follows them.      *)
(*                                                                         *)
(* A request payload is a JSON object or is absent; language codes are     *)
(* strings, as the docstring of translate() gives them.                    *)
(***************************************************************************)
EXTENDS Integers, Sequences, FiniteSets, TLC

\* ------------------------------------------------------------------ bounds
\* Longest "languages" list a request carries.
MaxLangs == 2
\* Largest number of keys of a bundle posted to /validate.
MaxKeys == 2

\* ------------------------------------------------------------- the domain
Requests == {"r1", "r2"}
LangCodes == {"es", "fr"}
\* Names tempfile.NamedTemporaryFile can hand out.
Paths == {"tmpA.arb", "tmpB.arb"}
None == "None"

\* Sequences over S of length at most n.
SeqUpTo(S, n) == UNION {[1..k -> S] : k \in 0..n}

\* "content" of a /translate payload: the key is absent, the object is
\* empty, or it is a non-empty bundle.
ContentKinds == {"missing", "empty", "bundle"}

\* The "languages" lists of a payload.  Codes are interchangeable (the code
\* is only passed to the provider and used as a key), so the first code of a
\* list is named es.
LanguageLists ==
    {l \in SeqUpTo(LangCodes, MaxLangs) : l = <<>> \/ l[1] = "es"}

\* The JSON payloads of /translate: no payload (None, or the falsy {}), or
\* an object with or without the key "languages" (a list of codes).
TranslatePayloads ==
    {[present |-> FALSE, content |-> "missing", hasLanguages |-> FALSE,
      languages |-> <<>>]} \cup
    {[present |-> TRUE, content |-> c, hasLanguages |-> FALSE,
      languages |-> <<>>] : c \in ContentKinds} \cup
    {[present |-> TRUE, content |-> c, hasLanguages |-> TRUE, languages |-> l] :
        c \in ContentKinds, l \in LanguageLists}

\* ----------------------------------------------------- /validate payloads
\* A key is the sequence of its characters.
LocaleKey == <<"@", "@", "l", "o", "c", "a", "l", "e">>
Keys == {<<"a">>, <<"b">>, <<"@", "a">>, <<"a", "@">>, LocaleKey}

\* JSON values of a bundle: strings, null, and an object (a description).
EmptyString == [type |-> "string", chars |-> <<>>]
Null == [type |-> "null", chars |-> <<>>]
Values == {EmptyString, Null,
           [type |-> "string", chars |-> <<"h", "i">>],
           [type |-> "object", chars |-> <<>>]}

\* A dict is the sequence of its items in insertion order, keys distinct.
Dicts ==
    {d \in SeqUpTo([key : Keys, value : Values], MaxKeys) :
        \A i, j \in 1..Len(d) : d[i].key = d[j].key => i = j}

\* data.get('content', {}): a dict, or a JSON value of another type.
Contents ==
    {[type |-> "dict", items |-> d] : d \in Dicts} \cup
    {[type |-> t, items |-> <<>>] : t \in {"list", "string", "number", "null"}}

\* The JSON payloads of /validate: none, or an object with or without the
\* key "content".
NoContent == [present |-> FALSE, hasContent |-> FALSE,
              content |-> [type |-> "dict", items |-> <<>>]]
ValidatePayloads ==
    {NoContent} \cup
    {[present |-> TRUE, hasContent |-> FALSE,
      content |-> [type |-> "dict", items |-> <<>>]]} \cup
    {[present |-> TRUE, hasContent |-> TRUE, content |-> c] : c \in Contents}

\* ------------------------------------------------------------------ state
VARIABLES
    pc,            \* pc[r]: where the handler of request r stands
    data,          \* data[r]: request.get_json() of r
    languages,     \* languages[r]: the local "languages" of translate()
    g_translator,  \* the module global _translator (None or an instance)
    constructed,   \* number of LocalizationTranslator(config) calls so far
    translator,    \* translator[r]: the local "translator" of translate()
    files,         \* files[p]: the request whose NamedTemporaryFile call made
                   \* the file that exists under the name p (None: no file)
    fname,         \* fname[r]: f.name of the file r created (None before)
    source_path,   \* source_path[r]: the local "source_path" (None: unbound)
    idx,           \* idx[r]: position of the for loop in languages[r]
    results,       \* results[r]: the dict "results"
    calls,         \* calls[r]: the generate_for_language calls r made, in order
    outcomes,      \* outcomes[r]: success flag of each finished attempt, in order
    unlinks,       \* unlinks[r]: number of os.unlink(source_path) calls of r
    response,      \* response[r]: what the handler returned
    vpc,           \* where the handler of the POST /validate stands
    vdata,         \* request.get_json() of the POST /validate
    vresponse      \* what validate() returned

tvars == <<pc, data, languages, g_translator, constructed, translator, files,
           fname, source_path, idx, results, calls, outcomes, unlinks, response>>
vvars == <<vpc, vdata, vresponse>>
vars == <<tvars, vvars>>

NoPayload == [present |-> FALSE, content |-> "missing", hasLanguages |-> FALSE,
              languages |-> <<>>]
NoResponse == [status |-> 0]
EmptyDict == [l \in {} |-> TRUE]

Init ==
    /\ pc = [r \in Requests |-> "idle"]
    /\ data = [r \in Requests |-> NoPayload]
    /\ languages = [r \in Requests |-> <<>>]
    /\ g_translator = None
    /\ constructed = 0
    /\ translator = [r \in Requests |-> None]
    /\ files = [p \in Paths |-> None]
    /\ fname = [r \in Requests |-> None]
    /\ source_path = [r \in Requests |-> None]
    /\ idx = [r \in Requests |-> 0]
    /\ results = [r \in Requests |-> EmptyDict]
    /\ calls = [r \in Requests |-> <<>>]
    /\ outcomes = [r \in Requests |-> <<>>]
    /\ unlinks = [r \in Requests |-> 0]
    /\ response = [r \in Requests |-> NoResponse]
    /\ vpc = "idle"
    /\ vdata = NoContent
    /\ vresponse = NoResponse

\* -------------------------------------------------------------- responses
ErrorResponse(code, msg) == [status |-> code, error |-> msg]

\* A handler that forgets the test of line 66.
ContentNeverChecked(d) == TRUE

\* Python truthiness of data.get('content', {}).
ContentTruthy(d) == d.content = "bundle"

\* data.get('languages', []).
LanguagesOf(d) == IF d.hasLanguages THEN d.languages ELSE <<>>

\* ---------------------------------------------------------------- actions
\* A POST /translate arrives with some payload.
Receive(r) ==
    /\ pc[r] = "idle"
    /\ UNCHANGED vvars
    /\ \E d \in TranslatePayloads : data' = [data EXCEPT ![r] = d]
    /\ pc' = [pc EXCEPT ![r] = "check"]
    /\ UNCHANGED <<languages, g_translator, constructed, translator, files,
                   fname, source_path, idx, results, calls, outcomes, unlinks,
                   response>>

\* Lines 58-70: the three early returns.
CheckInput(r) ==
    /\ pc[r] = "check"
    /\ UNCHANGED vvars
    /\ IF ~data[r].present
       THEN /\ response' = [response EXCEPT ![r] =
                              ErrorResponse(400, "No JSON payload provided")]
            /\ pc' = [pc EXCEPT ![r] = "done"]
            /\ UNCHANGED languages
       ELSE IF ~ContentTruthy(data[r])
       THEN /\ response' = [response EXCEPT ![r] =
                              ErrorResponse(400, "No content provided")]
            /\ pc' = [pc EXCEPT ![r] = "done"]
            /\ UNCHANGED languages
       ELSE IF LanguagesOf(data[r]) = <<>>
       THEN /\ response' = [response EXCEPT ![r] =
                              ErrorResponse(400, "No target languages specified")]
            /\ pc' = [pc EXCEPT ![r] = "done"]
            /\ UNCHANGED languages
       ELSE /\ languages' = [languages EXCEPT ![r] = LanguagesOf(data[r])]
            /\ pc' = [pc EXCEPT ![r] = "gt_check"]
            /\ UNCHANGED response
    /\ UNCHANGED <<data, g_translator, constructed, translator, files, fname,
                   source_path, idx, results, calls, outcomes, unlinks>>

\* Lines 118-119: the outer handler turns any exception into a 500.
Raise500(r, msg) ==
    /\ response' = [response EXCEPT ![r] =
                      ErrorResponse(500, msg)]
    /\ pc' = [pc EXCEPT ![r] = "done"]

\* get_translator(), line 19: the test of the global.
GtCheck(r) ==
    /\ pc[r] = "gt_check"
    /\ UNCHANGED vvars
    /\ pc' = [pc EXCEPT ![r] =
                IF g_translator = None THEN "gt_construct" ELSE "gt_return"]
    /\ UNCHANGED <<data, languages, g_translator, constructed, translator,
                   files, fname, source_path, idx, results, calls, outcomes,
                   unlinks, response>>

\* get_translator(), lines 20-32: build the client and store it in the
\* global.  The constructor belongs to the translator package and may raise.
GtConstruct(r) ==
    /\ pc[r] = "gt_construct"
    /\ UNCHANGED vvars
    /\ \/ /\ constructed' = constructed + 1
          /\ g_translator' = r
          /\ pc' = [pc EXCEPT ![r] = "gt_return"]
          /\ UNCHANGED response
       \/ /\ Raise500(r, "LocalizationTranslator")
          /\ UNCHANGED <<constructed, g_translator>>
    /\ UNCHANGED <<data, languages, translator, files, fname, source_path,
                   idx, results, calls, outcomes, unlinks>>

\* get_translator(), line 33, and line 72-73 of translate().
GtReturn(r) ==
    /\ pc[r] = "gt_return"
    /\ UNCHANGED vvars
    /\ translator' = [translator EXCEPT ![r] = g_translator]
    /\ results' = [results EXCEPT ![r] = EmptyDict]
    /\ pc' = [pc EXCEPT ![r] = "stage"]
    /\ UNCHANGED <<data, languages, g_translator, constructed, files, fname,
                   source_path, idx, calls, outcomes, unlinks, response>>

\* A staging under one fixed name, open('/tmp/source.arb', 'w'), whatever
\* exists there.
StageFixedName(r) ==
    /\ pc[r] = "stage"
    /\ UNCHANGED vvars
    /\ \/ /\ files' = [files EXCEPT !["tmpA.arb"] = r]
          /\ fname' = [fname EXCEPT ![r] = "tmpA.arb"]
          /\ pc' = [pc EXCEPT ![r] = "dump"]
          /\ UNCHANGED response
       \/ /\ Raise500(r, "open")
          /\ UNCHANGED <<files, fname>>
    /\ UNCHANGED <<data, languages, g_translator, constructed, translator,
                   source_path, idx, results, calls, outcomes, unlinks>>

\* A staging whose failure is swallowed: the handler goes on into the loop
\* without a file.
StageSwallowed(r) ==
    /\ pc[r] = "stage"
    /\ UNCHANGED vvars
    /\ \/ \E p \in {q \in Paths : files[q] = None} :
             /\ files' = [files EXCEPT ![p] = r]
             /\ fname' = [fname EXCEPT ![r] = p]
             /\ pc' = [pc EXCEPT ![r] = "dump"]
             /\ UNCHANGED idx
       \/ /\ pc' = [pc EXCEPT ![r] = "loop"]
          /\ idx' = [idx EXCEPT ![r] = 1]
          /\ UNCHANGED <<files, fname>>
    /\ UNCHANGED <<data, languages, g_translator, constructed, translator,
                   source_path, results, calls, outcomes, unlinks, response>>

\* Line 76: NamedTemporaryFile(delete=False) creates a file under a name
\* no existing file has, or raises.
Stage(r) ==
    /\ pc[r] = "stage"
    /\ UNCHANGED vvars
    /\ \/ \E p \in {q \in Paths : files[q] = None} :
             /\ files' = [files EXCEPT ![p] = r]
             /\ fname' = [fname EXCEPT ![r] = p]
             /\ pc' = [pc EXCEPT ![r] = "dump"]
             /\ UNCHANGED response
       \/ /\ Raise500(r, "NamedTemporaryFile")
          /\ UNCHANGED <<files, fname>>
    /\ UNCHANGED <<data, languages, g_translator, constructed, translator,
                   source_path, idx, results, calls, outcomes, unlinks>>

\* A staging with delete=True: leaving the with block removes the file.
DumpDeleteOnClose(r) ==
    /\ pc[r] = "dump"
    /\ UNCHANGED vvars
    /\ files' = [files EXCEPT ![fname[r]] = None]
    /\ \/ /\ source_path' = [source_path EXCEPT ![r] = fname[r]]
          /\ idx' = [idx EXCEPT ![r] = 1]
          /\ pc' = [pc EXCEPT ![r] = "loop"]
          /\ UNCHANGED response
       \/ /\ Raise500(r, "json.dump")
          /\ UNCHANGED <<source_path, idx>>
    /\ UNCHANGED <<data, languages, g_translator, constructed, translator,
                   fname, results, calls, outcomes, unlinks>>

\* Lines 77-78: json.dump into the open file, then source_path = f.name.
\* A write error leaves the with block by the exception: the file was made
\* with delete=False, so closing it keeps it, and control is not yet inside
\* the try/finally of line 80.
Dump(r) ==
    /\ pc[r] = "dump"
    /\ UNCHANGED vvars
    /\ \/ /\ source_path' = [source_path EXCEPT ![r] = fname[r]]
          /\ idx' = [idx EXCEPT ![r] = 1]
          /\ pc' = [pc EXCEPT ![r] = "loop"]
          /\ UNCHANGED response
       \/ /\ Raise500(r, "json.dump")
          /\ UNCHANGED <<source_path, idx>>
    /\ UNCHANGED <<data, languages, g_translator, constructed, translator,
                   files, fname, results, calls, outcomes, unlinks>>

\* Lines 90-94: the entry of a language that was translated and read back.
SuccessEntry(language) ==
    [success |-> TRUE, content |-> <<"translated", language>>,
     filePath |-> <<"target", language>>]

\* Lines 97-100: the entry of a language whose attempt raised.
FailureEntry(e) == [success |-> FALSE, error |-> e]

\* A dict store that keeps the entry a key already has.
DictSetDefault(d, k, v) ==
    [x \in DOMAIN d \cup {k} |-> IF x \in DOMAIN d THEN d[x] ELSE v]

\* results[language] = entry
DictSet(d, k, v) == [x \in DOMAIN d \cup {k} |-> IF x = k THEN v ELSE d[x]]

\* Position of the loop after the attempt at position i.
AfterAttempt(r) ==
    IF idx[r] + 1 > Len(languages[r]) THEN "finally" ELSE "loop"

\* A loop that submits the calls for all remaining elements at once.
CallProviderFanOut(r) ==
    /\ pc[r] = "loop"
    /\ UNCHANGED vvars
    /\ calls' = [calls EXCEPT ![r] =
                   @ \o SubSeq(languages[r], idx[r], Len(languages[r]))]
    /\ pc' = [pc EXCEPT ![r] = "calling"]
    /\ UNCHANGED <<data, languages, g_translator, constructed, translator,
                   files, fname, source_path, idx, results, outcomes, unlinks,
                   response>>

\* Line 84: translator.generate_for_language(source_path, language) is
\* entered for the element of the loop.
CallProvider(r) ==
    /\ pc[r] = "loop"
    /\ UNCHANGED vvars
    /\ calls' = [calls EXCEPT ![r] = Append(@, languages[r][idx[r]])]
    /\ pc' = [pc EXCEPT ![r] = "calling"]
    /\ UNCHANGED <<data, languages, g_translator, constructed, translator,
                   files, fname, source_path, idx, results, outcomes, unlinks,
                   response>>

\* A handler without the except clause of line 96: a failed attempt leaves
\* the loop and reaches the handler of line 118.
ProviderReturnsUncaught(r) ==
    /\ pc[r] = "calling"
    /\ UNCHANGED vvars
    /\ LET language == languages[r][idx[r]] IN
       \E ok \in BOOLEAN :
          /\ results' = [results EXCEPT ![r] =
                           IF ok
                           THEN DictSet(@, language, SuccessEntry(language))
                           ELSE @]
          /\ outcomes' = [outcomes EXCEPT ![r] = Append(@, ok)]
          /\ IF ok
             THEN /\ pc' = [pc EXCEPT ![r] = AfterAttempt(r)]
                  /\ UNCHANGED <<response, unlinks, files>>
             ELSE /\ Raise500(r, "generate_for_language")
                  /\ unlinks' = [unlinks EXCEPT ![r] = @ + 1]
                  /\ files' = [files EXCEPT ![source_path[r]] = None]
    /\ idx' = [idx EXCEPT ![r] = @ + 1]
    /\ UNCHANGED <<data, languages, g_translator, constructed, translator,
                   fname, source_path, calls>>

\* Lines 84-100: the attempt ends.  Either generate_for_language returned a
\* path and the file was opened and parsed (ok), or one of the three raised
\* and the handler of line 96 caught it; the outcome is stored under the
\* language code and the loop moves on.
ProviderReturns(r) ==
    /\ pc[r] = "calling"
    /\ UNCHANGED vvars
    /\ LET language == languages[r][idx[r]] IN
       \E ok \in BOOLEAN :
          /\ results' = [results EXCEPT ![r] =
                           IF ok
                           THEN DictSet(@, language, SuccessEntry(language))
                           ELSE DictSet(@, language, FailureEntry("str(e)"))]
          /\ outcomes' = [outcomes EXCEPT ![r] = Append(@, ok)]
    /\ idx' = [idx EXCEPT ![r] = @ + 1]
    /\ pc' = [pc EXCEPT ![r] = AfterAttempt(r)]
    /\ UNCHANGED <<data, languages, g_translator, constructed, translator,
                   files, fname, source_path, calls, unlinks, response>>

\* Line 84 without a return: the call carries no timeout, so a provider
\* that never answers keeps the handler inside generate_for_language.
ProviderHangs(r) ==
    /\ pc[r] = "calling"
    /\ UNCHANGED vvars
    /\ pc' = [pc EXCEPT ![r] = "hung"]
    /\ UNCHANGED <<data, languages, g_translator, constructed, translator,
                   files, fname, source_path, idx, results, calls, outcomes,
                   unlinks, response>>

\* A loop without the try/finally of lines 80 and 102: the exception leaves
\* translate() at once.
AbortWithoutFinally(r) ==
    /\ pc[r] \in {"calling", "hung"}
    /\ UNCHANGED vvars
    /\ pc' = [pc EXCEPT ![r] = "aborted"]
    /\ UNCHANGED <<data, languages, g_translator, constructed, translator,
                   files, fname, source_path, idx, results, calls, outcomes,
                   unlinks, response>>

\* Lines 80-107 under an exception that is no Exception: a KeyboardInterrupt
\* or SystemExit raised in the handler while an attempt is in flight (the
\* server stops the call) passes the except clause of line 96, enters the
\* finally clause of line 102 and, after it, passes the except clause of
\* line 118.
Abort(r) ==
    /\ pc[r] \in {"calling", "hung"}
    /\ UNCHANGED vvars
    /\ pc' = [pc EXCEPT ![r] = "unwinding"]
    /\ UNCHANGED <<data, languages, g_translator, constructed, translator,
                   files, fname, source_path, idx, results, calls, outcomes,
                   unlinks, response>>

\* A finally clause without the try/except of lines 104-107: an os.unlink
\* error reaches the handler of line 118.
UnlinkPropagating(r) ==
    /\ pc[r] \in {"finally", "unwinding"}
    /\ UNCHANGED vvars
    /\ unlinks' = [unlinks EXCEPT ![r] = @ + 1]
    /\ \/ /\ files' = [files EXCEPT ![source_path[r]] = None]
          /\ pc' = [pc EXCEPT ![r] =
                      IF pc[r] = "unwinding" THEN "aborted" ELSE "respond"]
          /\ UNCHANGED response
       \/ /\ files' = files
          /\ Raise500(r, "os.unlink")
    /\ UNCHANGED <<data, languages, g_translator, constructed, translator,
                   fname, source_path, idx, results, calls, outcomes>>

\* Lines 102-107: os.unlink(source_path) with every error swallowed.  The
\* clause is entered at the end of the loop, and then line 109 follows, or
\* by an exception that unwinds, and then the exception leaves translate().
Unlink(r) ==
    /\ pc[r] \in {"finally", "unwinding"}
    /\ UNCHANGED vvars
    /\ unlinks' = [unlinks EXCEPT ![r] = @ + 1]
    /\ \/ files' = [files EXCEPT ![source_path[r]] = None]
       \/ files' = files
    /\ pc' = [pc EXCEPT ![r] = IF pc[r] = "unwinding" THEN "aborted" ELSE "respond"]
    /\ UNCHANGED <<data, languages, g_translator, constructed, translator,
                   fname, source_path, idx, results, calls, outcomes, response>>

\* A summary that counts the successes and takes the rest as failed.
SummaryByDifference(langs, res) ==
    [totalLanguages |-> Len(langs),
     successful |-> Cardinality({l \in DOMAIN res : res[l].success}),
     failed |-> Len(langs) - Cardinality({l \in DOMAIN res : res[l].success})]

\* Lines 111-115: the summary of the response.
Summary(langs, res) ==
    [totalLanguages |-> Len(langs),
     successful |-> Cardinality({l \in DOMAIN res : res[l].success}),
     failed |-> Cardinality({l \in DOMAIN res : ~res[l].success})]

\* Lines 109-116: the 200 response.
Respond(r) ==
    /\ pc[r] = "respond"
    /\ UNCHANGED vvars
    /\ response' = [response EXCEPT ![r] =
                      [status |-> 200, results |-> results[r],
                       summary |-> Summary(languages[r], results[r])]]
    /\ pc' = [pc EXCEPT ![r] = "done"]
    /\ UNCHANGED <<data, languages, g_translator, constructed, translator,
                   files, fname, source_path, idx, results, calls, outcomes,
                   unlinks>>

\* The steps the handler of request r takes by itself.
Step(r) ==
    \/ Receive(r) \/ CheckInput(r) \/ GtCheck(r) \/ GtConstruct(r)
    \/ GtReturn(r) \/ Stage(r) \/ Dump(r) \/ CallProvider(r)
    \/ ProviderReturns(r) \/ ProviderHangs(r) \/ Unlink(r) \/ Respond(r)

Next ==
    \E r \in Requests :
        \/ Receive(r)
        \/ CheckInput(r)
        \/ GtCheck(r)
        \/ GtConstruct(r)
        \/ GtReturn(r)
        \/ Stage(r)
        \/ Dump(r)
        \/ CallProvider(r)
        \/ ProviderReturns(r)
        \/ ProviderHangs(r)
        \/ Abort(r)
        \/ Unlink(r)
        \/ Respond(r)

Spec == Init /\ [][Next]_vars

\* --------------------------------------------------------------- validate
\* key.startswith('@')
StartsWithAt(key) == Len(key) >= 1 /\ key[1] = "@"

\* '@@locale' not in content
LocaleMissing(items) == \A i \in 1..Len(items) : items[i].key # LocaleKey

\* A test that forgets "value is None".
IsEmptyString(value) == value = EmptyString

\* value == '' or value is None
IsEmptyValue(value) == value = EmptyString \/ value = Null

MissingLocaleIssue == [text |-> "Missing @@locale metadata", key |-> <<>>]
NotObjectIssue == [text |-> "Content must be a JSON object", key |-> <<>>]
\* f'Empty value for key: {key}'
EmptyValueIssue(key) == [text |-> "Empty value for key: ", key |-> key]

\* Lines 160-162: the loop over content.items(), appending to issues.
RECURSIVE EmptyValueLoop(_, _)
EmptyValueLoop(items, issues) ==
    IF items = <<>> THEN issues
    ELSE LET key == Head(items).key
             value == Head(items).value
         IN  EmptyValueLoop(Tail(items),
                 IF ~StartsWithAt(key) /\ IsEmptyValue(value)
                 THEN Append(issues, EmptyValueIssue(key))
                 ELSE issues)

\* Lines 150-162: the list "issues".
Issues(content) ==
    IF content.type # "dict"
    THEN <<NotObjectIssue>>
    ELSE EmptyValueLoop(content.items,
             IF LocaleMissing(content.items) THEN <<MissingLocaleIssue>>
             ELSE <<>>)

\* Line 167: len([k for k in content.keys() if not k.startswith('@')]).
KeyCount(content) ==
    Cardinality({i \in 1..Len(content.items) : ~StartsWithAt(content.items[i].key)})

\* Lines 164-171: the response.  content.keys() exists on a dict only: on a
\* list, a string, a number or None it raises AttributeError, which the
\* handler of line 170 turns into a 500.
ValidateResponse(content) ==
    IF content.type = "dict"
    THEN [status |-> 200, valid |-> Len(Issues(content)) = 0,
          issues |-> Issues(content), keyCount |-> KeyCount(content)]
    ELSE ErrorResponse(500, "Validation failed")

\* A POST /validate arrives with some payload.
VReceive ==
    /\ vpc = "idle"
    /\ \E d \in ValidatePayloads : vdata' = d
    /\ vpc' = "check"
    /\ UNCHANGED <<vresponse, tvars>>

\* Lines 142-171.
Validate ==
    /\ vpc = "check"
    /\ vresponse' = IF ~vdata.present
                    THEN ErrorResponse(400, "No JSON payload provided")
                    ELSE ValidateResponse(vdata.content)
    /\ vpc' = "done"
    /\ UNCHANGED <<vdata, tvars>>

ValidateNext == VReceive \/ Validate

ValidateSpec == Init /\ [][ValidateNext]_vars

\* ================================================================= claims
\* The request passed the three tests of lines 59-70.
PassedChecks(r) ==
    /\ data[r].present
    /\ data[r].content = "bundle"
    /\ data[r].hasLanguages
    /\ data[r].languages # <<>>

Returned(r) == pc[r] = "done"
Returned200(r) == Returned(r) /\ response[r].status = 200

\* The staging file r created still exists.
HasArtifact(r) == \E p \in Paths : files[p] = r

\* Number of failed attempts of r.
FailedAttempts(r) == Cardinality({i \in 1..Len(outcomes[r]) : ~outcomes[r][i]})

\* C1: partial-failure isolation.  In every call that passed the checks and
\* staged the bundle and has returned, the provider was called for every
\* element of languages, every element whose attempt succeeded is in results
\* with success = TRUE, and with at least two elements and exactly one failed
\* attempt summary.failed is 1.
C1_PartialFailureIsolation ==
    \A r \in Requests :
        (Returned(r) /\ PassedChecks(r) /\ source_path[r] # None) =>
            /\ calls[r] = data[r].languages
            /\ Len(outcomes[r]) = Len(data[r].languages)
            /\ \A i \in 1..Len(outcomes[r]) :
                  outcomes[r][i] =>
                      /\ calls[r][i] \in DOMAIN results[r]
                      /\ results[r][calls[r][i]].success
            /\ (Len(data[r].languages) >= 2 /\ FailedAttempts(r) = 1) =>
                  /\ response[r].status = 200
                  /\ response[r].summary.failed = 1

\* C2: summary invariant.  On every 200 response successful + failed =
\* totalLanguages = len(languages), duplicates included.
C2_SummaryInvariant ==
    \A r \in Requests :
        Returned200(r) =>
            /\ response[r].summary.successful + response[r].summary.failed
                  = response[r].summary.totalLanguages
            /\ response[r].summary.totalLanguages = Len(data[r].languages)

\* C3: cleanup guarantee.  Once a call that created its staging file has
\* returned, on whatever path, os.unlink ran exactly once for it and the file
\* no longer exists.
C3_CleanupGuarantee ==
    \A r \in Requests :
        (Returned(r) /\ fname[r] # None) =>
            /\ unlinks[r] = 1
            /\ ~HasArtifact(r)

\* C4: input rejection.  A request without payload, with missing or empty
\* content, or with missing or empty languages never gets past the checks:
\* it constructs no client, creates no staging file, calls no provider, and
\* its response is a 400.
C4_InputRejection ==
    \A r \in Requests :
        (pc[r] # "idle" /\ ~PassedChecks(r)) =>
            /\ pc[r] \in {"check", "done"}
            /\ g_translator # r
            /\ translator[r] = None
            /\ fname[r] = None /\ ~HasArtifact(r)
            /\ calls[r] = <<>>
            /\ unlinks[r] = 0
            /\ Returned(r) => response[r].status = 400

\* C4 witness: a request with a bundle and an empty languages list, and one
\* with languages and an empty bundle, both answered.
C4_Witness ==
    /\ Returned("r1") /\ Returned("r2")
    /\ data["r1"].content = "bundle" /\ data["r1"].hasLanguages
    /\ data["r1"].languages = <<>>
    /\ data["r2"].present /\ data["r2"].content = "empty"
    /\ data["r2"].languages # <<>>

C6_ConstructedOnce ==
    /\ constructed <= 1
    /\ \A a, b \in Requests :
          (translator[a] # None /\ translator[b] # None) =>
              translator[a] = translator[b]

\* C7: the validator never fails.  Every payload that carries a content gets
\* a report (a 200), and for a content that is not a mapping the report has
\* the single issue "Content must be a JSON object" and valid = FALSE.
C7_ValidatorNeverFails ==
    (vpc = "done" /\ vdata.present /\ vdata.hasContent) =>
        /\ vresponse.status = 200
        /\ vdata.content.type # "dict" =>
              /\ vresponse.issues = <<NotObjectIssue>>
              /\ vresponse.valid = FALSE

\* The keys of a bundle that are not metadata and hold '' or null, in order.
EmptyEntries(items) ==
    SelectSeq(items,
        LAMBDA it : /\ (it.key = <<>> \/ Head(it.key) # "@")
                    /\ it.value.type \in {"string", "null"}
                    /\ it.value.chars = <<>>)

\* C8: the report on a mapping.  issues is "Missing @@locale metadata" iff
\* the key @@locale is absent, followed by one "Empty value for key: k" per
\* key k not starting with '@' whose value is '' or null, in key order, and
\* nothing else; keyCount counts the keys not starting with '@'; valid iff
\* issues is empty.
C8_ReportOnMapping ==
    (vpc = "done" /\ vdata.present /\ vdata.content.type = "dict") =>
        LET items == vdata.content.items
            hasLocale == \E i \in 1..Len(items) : items[i].key = LocaleKey
            empties == EmptyEntries(items)
        IN  /\ vresponse.status = 200
            /\ vresponse.issues =
                  (IF hasLocale THEN <<>> ELSE <<MissingLocaleIssue>>) \o
                  [i \in 1..Len(empties) |->
                      [text |-> "Empty value for key: ", key |-> empties[i].key]]
            /\ vresponse.keyCount =
                  Len(SelectSeq(items, LAMBDA it : it.key = <<>> \/ Head(it.key) # "@"))
            /\ vresponse.valid <=> (vresponse.issues = <<>>)

\* C8 witness: a report on a bundle without @@locale that holds a key with a
\* null value and a metadata key with an empty value: two issues, one key.
C8_Witness ==
    /\ vpc = "done" /\ vdata.present /\ vdata.content.type = "dict"
    /\ vdata.content.items =
          <<[key |-> <<"@", "a">>, value |-> EmptyString],
            [key |-> <<"a">>, value |-> Null]>>
    /\ Len(vresponse.issues) = 2
    /\ vresponse.keyCount = 1
    /\ ~vresponse.valid

\* Position of the last finished attempt of r for the code l (0: none).
LastAttempt(r, l) ==
    LET at == {i \in 1..Len(outcomes[r]) : calls[r][i] = l}
    IN  IF at = {} THEN 0 ELSE CHOOSE i \in at : \A j \in at : j <= i

\* C9: one attempt per element, last write wins.  The provider calls of a
\* call are the elements of languages in request order, each once, duplicates
\* included: all of them once the loop is over; the entry of results for a
\* code is the outcome of the last finished attempt for that code.
C9_OneAttemptPerElement ==
    \A r \in Requests :
        /\ Len(calls[r]) <= Len(languages[r])
        /\ calls[r] = SubSeq(languages[r], 1, Len(calls[r]))
        /\ Len(outcomes[r]) <= Len(calls[r])
        /\ Len(calls[r]) <= Len(outcomes[r]) + 1
        /\ (pc[r] \in {"finally", "respond"} \/ Returned200(r)) =>
              /\ calls[r] = languages[r]
              /\ Len(outcomes[r]) = Len(languages[r])
        /\ \A l \in LangCodes :
              IF LastAttempt(r, l) = 0
              THEN l \notin DOMAIN results[r]
              ELSE /\ l \in DOMAIN results[r]
                   /\ results[r][l].success = outcomes[r][LastAttempt(r, l)]
        /\ Returned200(r) => response[r].results = results[r]

\* C9 witness: languages = [es, es] answered after a first attempt that
\* succeeded and a second that failed: two calls, and es reported failed.
C9_Witness ==
    \E r \in Requests :
        /\ Returned200(r)
        /\ languages[r] = <<"es", "es">>
        /\ calls[r] = <<"es", "es">>
        /\ outcomes[r] = <<TRUE, FALSE>>
        /\ ~response[r].results["es"].success

\* C10: bounded response.  No attempt blocks the call for good: the handler
\* of a call that has started and not yet returned can always take its next
\* step (an attempt past its deadline is recorded as failed and the loop
\* goes on to the release and the response).
C10_BoundedResponse ==
    \A r \in Requests : pc[r] \notin {"idle", "done"} => ENABLED Step(r)

\* C11: the stage lifetime covers every attempt.  While a provider call of a
\* call is in flight the staging file of that call exists under
\* source_path; os.unlink runs only when no attempt is in flight or left to
\* start (all of them finished, unless the call was stopped); and a 200
\* response exists only after os.unlink ran.
C11_StageCoversAttempts ==
    \A r \in Requests :
        /\ pc[r] \in {"loop", "calling", "hung"} =>
              /\ source_path[r] # None
              /\ files[source_path[r]] = r
              /\ unlinks[r] = 0
        /\ unlinks[r] >= 1 =>
              /\ pc[r] \in {"respond", "done", "aborted"}
              /\ pc[r] # "aborted" => Len(outcomes[r]) = Len(languages[r])
        /\ response[r].status = 200 =>
              /\ unlinks[r] = 1
              /\ Len(outcomes[r]) = Len(languages[r])

\* C11 witness: a call in its second provider call, its staging file in place.
C11_Witness ==
    \E r \in Requests :
        /\ pc[r] = "calling"
        /\ Len(calls[r]) = 2
        /\ files[source_path[r]] = r

\* C12: unexpected failures never leak.  A call answered with a 500 has left
\* no staging file behind.
C12_NoLeakOnFailure ==
    \A r \in Requests :
        (Returned(r) /\ response[r].status = 500) => ~HasArtifact(r)

\* C13: a staging failure aborts the whole call.  When the staging file
\* could not be made or written, no provider call was made, results is empty
\* and the response is the error response, without results and summary.
C13_StagingFailureAborts ==
    \A r \in Requests :
        (Returned(r) /\ translator[r] # None /\ source_path[r] = None) =>
            /\ calls[r] = <<>>
            /\ DOMAIN results[r] = {}
            /\ response[r].status = 500
            /\ DOMAIN response[r] = {"status", "error"}

\* C13 witness: the two staging failures, of NamedTemporaryFile in one call
\* and of json.dump in the other.
C13_Witness ==
    /\ Returned("r1") /\ translator["r1"] # None /\ fname["r1"] = None
    /\ Returned("r2") /\ fname["r2"] # None /\ source_path["r2"] = None

\* os.unlink ran for r and left the file in place (it raised).
UnlinkFailed(r) == unlinks[r] = 1 /\ HasArtifact(r)

\* C14: tolerant release.  A failed os.unlink is not propagated: the call
\* goes on to its 200 response, and that response is the one a call with the
\* same languages and the same attempt outcomes gives when its os.unlink
\* succeeds.
C14_TolerantRelease ==
    /\ \A r \in Requests :
          (Returned(r) /\ unlinks[r] = 1) =>
              /\ response[r].status = 200
              /\ response[r].results = results[r]
    /\ \A a, b \in Requests :
          (/\ Returned(a) /\ Returned(b)
           /\ unlinks[a] = 1 /\ unlinks[b] = 1
           /\ languages[a] = languages[b]
           /\ outcomes[a] = outcomes[b]) =>
              response[a] = response[b]

\* C14 witness: two answered calls with the same languages and a success
\* and a failure each; os.unlink failed in one and succeeded in the other.
C14_Witness ==
    \E a, b \in Requests :
        /\ Returned(a) /\ Returned(b)
        /\ languages[a] = languages[b]
        /\ outcomes[a] = <<TRUE, FALSE>> /\ outcomes[b] = <<TRUE, FALSE>>
        /\ UnlinkFailed(a)
        /\ unlinks[b] = 1 /\ ~HasArtifact(b)

\* The handler of r still uses the staging file it created.
UsesArtifact(r) ==
    pc[r] \in {"dump", "loop", "calling", "hung", "finally", "unwinding"}

\* The locals of the handler of r.
Locals(r) ==
    <<data[r], languages[r], translator[r], fname[r], source_path[r], idx[r],
      results[r], calls[r], outcomes[r], unlinks[r], response[r]>>

\* While a call uses its staging file, the file it created is in place under
\* the name it holds, two calls never hold the same file, and the path given
\* to the provider is that of the call's own file.
C15_OwnArtifactInPlace ==
    \A a \in Requests :
        /\ UsesArtifact(a) => files[fname[a]] = a
        /\ pc[a] \in {"calling", "hung"} =>
              source_path[a] = fname[a] /\ files[source_path[a]] = a
        /\ \A b \in Requests \ {a} :
              (UsesArtifact(a) /\ UsesArtifact(b)) => fname[a] # fname[b]

\* A file appears only by the NamedTemporaryFile call of the call that then
\* holds it, under a name no file had; a file disappears only by the
\* os.unlink of the call that created it; and a step of one call changes no
\* local of another call.
C15_OwnArtifactSteps ==
    /\ \A p \in Paths :
          files'[p] # files[p] =>
              \/ /\ files[p] = None
                 /\ pc[files'[p]] = "stage"
                 /\ fname'[files'[p]] = p
              \/ /\ files'[p] = None
                 /\ source_path[files[p]] = p
                 /\ unlinks'[files[p]] = unlinks[files[p]] + 1
    /\ \A a \in Requests :
          pc'[a] = pc[a] => Locals(a)' = Locals(a)

\* C15: staging artifacts are exclusively owned.  For every interleaving of
\* two calls, each creates its own distinct file, gives only its own file to
\* the provider and removes only its own file, never one another call still
\* uses; apart from the files and the provider client the calls share
\* nothing.
C15_ExclusiveOwnership ==
    []C15_OwnArtifactInPlace /\ [][C15_OwnArtifactSteps]_vars

\* C15 witness: both calls inside a provider call at once, each with its own
\* file.
C15_Witness ==
    /\ pc["r1"] = "calling" /\ pc["r2"] = "calling"
    /\ source_path["r1"] # source_path["r2"]
    /\ files[source_path["r1"]] = "r1" /\ files[source_path["r2"]] = "r2"

\* The call of r was stopped while an attempt was in flight.
Stopped(r) == pc[r] \in {"unwinding", "aborted"}

\* C16, as stated: once control has left a call that was stopped during an
\* attempt, no further language was attempted and the staging file is gone.
C16_AbortRemovesArtifact ==
    \A r \in Requests :
        pc[r] = "aborted" =>
            /\ Len(calls[r]) = Len(outcomes[r]) + 1
            /\ ~HasArtifact(r)

\* A stopped call makes no further provider call and records nothing more,
\* and control leaves it with os.unlink called exactly once.
C16_StoppedState ==
    \A r \in Requests :
        /\ Stopped(r) =>
              /\ Len(calls[r]) = Len(outcomes[r]) + 1
              /\ response[r] = NoResponse
        /\ pc[r] = "unwinding" => unlinks[r] = 0 /\ files[source_path[r]] = r
        /\ pc[r] = "aborted" => unlinks[r] = 1

\* The one step of a stopped call is the os.unlink of its own file, which
\* removes the file or leaves everything as it is.
C16_StoppedSteps ==
    \A r \in Requests :
        Stopped(r) =>
            /\ Stopped(r)'
            /\ calls'[r] = calls[r]
            /\ results'[r] = results[r]
            /\ pc'[r] # pc[r] =>
                  /\ pc'[r] = "aborted"
                  /\ files' \in {files, [files EXCEPT ![source_path[r]] = None]}

\* C16, amended: if a call is stopped while an attempt is in flight, no
\* further language is attempted and os.unlink is still called on the
\* staging file, exactly once, before control leaves the call; the file is
\* gone unless that os.unlink itself raised.
C16_AbortStillReleases ==
    []C16_StoppedState /\ [][C16_StoppedSteps]_vars

\* C16 witness: control has left a call stopped in the first of its two
\* attempts, and the staging file is gone.
C16_Witness ==
    \E r \in Requests :
        /\ pc[r] = "aborted"
        /\ Len(languages[r]) = 2 /\ Len(calls[r]) = 1
        /\ unlinks[r] = 1 /\ ~HasArtifact(r)

\* The distinct codes of a languages list.
Codes(langs) == {langs[i] : i \in 1..Len(langs)}

\* C17: the shape of a 200 response.  The keys of results are the distinct
\* codes of languages; each entry is a success entry with content and
\* filePath or a failure entry with error; successful + failed is the number
\* of distinct codes and totalLanguages is len(languages).
C17_ResponseShape ==
    \A r \in Requests :
        Returned200(r) =>
            LET res == response[r].results
                sum == response[r].summary
            IN  /\ DOMAIN res = Codes(data[r].languages)
                /\ \A l \in DOMAIN res :
                      IF res[l].success
                      THEN DOMAIN res[l] = {"success", "content", "filePath"}
                      ELSE DOMAIN res[l] = {"success", "error"}
                /\ sum.successful + sum.failed = Cardinality(Codes(data[r].languages))
                /\ sum.successful = Cardinality({l \in DOMAIN res : res[l].success})
                /\ sum.totalLanguages = Len(data[r].languages)

\* C17 witness: the 200 response to languages = [es, es]: one key, one
\* counted outcome, totalLanguages = 2.
C17_Witness ==
    \E r \in Requests :
        /\ Returned200(r)
        /\ data[r].languages = <<"es", "es">>
        /\ DOMAIN response[r].results = {"es"}
        /\ response[r].summary.successful + response[r].summary.failed = 1
        /\ response[r].summary.totalLanguages = 2

\* C18: the attempts of a call are sequential.  At most one provider call of
\* a call is in flight, exactly when the handler is inside
\* generate_for_language, and when the call for an element has started, the
\* outcome of every earlier element is already in results.
C18_SequentialAttempts ==
    \A r \in Requests :
        LET inFlight == Len(calls[r]) - Len(outcomes[r])
        IN  /\ inFlight \in {0, 1}
            /\ inFlight = 1 <=> pc[r] \in {"calling", "hung", "unwinding", "aborted"}
            /\ \A i \in 1..Len(calls[r]) :
                  i < Len(calls[r]) =>
                      /\ i <= Len(outcomes[r])
                      /\ calls[r][i] \in DOMAIN results[r]
            /\ pc[r] \in {"calling", "hung"} => idx[r] = Len(calls[r])

\* C18 witness: the second provider call of a call is in flight and the
\* outcome of the first is recorded.
C18_Witness ==
    \E r \in Requests :
        /\ pc[r] = "calling"
        /\ calls[r] = <<"es", "fr">>
        /\ Len(outcomes[r]) = 1
        /\ DOMAIN results[r] = {"es"}
====
